---- MODULE Spec2Model ----
(***************************************************************************)
(* Model of the mks-servo42-rs codec: the command builder (Driver, lib.rs) *)
(* and the response parsers (helpers.rs).                                  *)
(*                                                                         *)
(* Spec       : a Driver and the sequence of command-building calls made   *)
(*              on it.                                                     *)
(* ParserSpec : a receive buffer filled by the transport and handed to the *)
(*              response parser that matches the command that was sent.    *)
(***************************************************************************)
EXTENDS Integers, Sequences, FiniteSets, TLC

VARIABLES
    address,   \* Driver.address
    buffer,    \* Driver.buffer, CMD_BUFFER_SIZE bytes
    op,        \* name of the last command-building operation called
    ret,       \* what that call returned
    calls,     \* number of calls made on the driver
    kind,      \* which response the caller is waiting for
    data,      \* bytes received so far, the slice handed to the parser
    res,       \* result of the last parser call on data
    steps,     \* number of transport events that shaped data
    args,      \* arguments of the last command-building call
    fresh,     \* what the same call returns on a newly constructed driver
    byte,      \* the u8 handed to Response::try_from
    response,  \* what Response::try_from returned
    query,     \* what is_success() and is_failure() returned on it
    scan_idx,  \* idx, the scan offset of the parser call in progress
    iters,     \* loop iterations that call has executed
    conv       \* the last numeric conversion called, with input and output

drv_vars == <<address, buffer, op, ret, calls>>
rx_vars == <<kind, data, res, steps>>
call_vars == <<args, fresh>>
resp_vars == <<byte, response, query>>
scan_vars == <<scan_idx, iters>>
vars == <<address, buffer, op, ret, calls, kind, data, res, steps,
          args, fresh, byte, response, query, scan_idx, iters, conv>>

----------------------------------------------------------------------------
(* Bounds of the model *)

\* number of command-building calls made on one driver
MaxCalls == 2

\* number of transport events (frames, noise bytes, short reads, bit errors)
\* that shape one receive buffer
MaxSteps == 3

----------------------------------------------------------------------------
(* Constants of lib.rs *)

DEFAULT_ADDRESS == 224
MIN_ADDRESS == 224
MAX_ADDRESS == 233
MAX_SPEED == 127
MAX_CURRENT_INDEX == 15
MAX_SUBDIVISION_INDEX == 8
MAX_ZERO_SPEED == 4
MAX_TORQUE_LIMIT == 1200
CMD_BUFFER_SIZE == 10

READ_ENCODER_VALUE == 48
READ_PULSE_COUNT == 51
READ_MOTOR_SHAFT_ANGLE == 54
READ_MOTOR_SHAFT_ANGLE_ERROR == 57
READ_EN_PIN_STATUS == 58
READ_RELEASE_STATUS == 61
READ_SHAFT_STATUS == 62
SAVE_CLEAR_STATUS == 255
CALIBRATE_ENCODER == 128
SET_CURRENT_LIMIT == 131
SET_SUBDIVISION == 132
SET_EN_LOGIC == 133
SET_DIRECTION == 134
SET_AUTO_SCREEN_OFF == 135
SET_PROTECTION == 136
SET_INTERPOLATION == 137
SET_ZERO_MODE == 144
SET_CURRENT_AS_ZERO == 145
SET_ZERO_SPEED == 146
SET_ZERO_DIRECTION == 147
GO_TO_ZERO == 148
SET_POSITION_KP == 161
SET_POSITION_KI == 162
SET_POSITION_KD == 163
SET_ACCELERATION == 164
SET_MAX_TORQUE == 165
ENABLE_MOTOR == 243
RUN_WITH_CONSTANT_SPEED == 246
STOP_shared == ENABLE_MOTOR

STOP == 247
RUN_MOTOR == 253

----------------------------------------------------------------------------
(* Integer helpers: u8 / u16 / u32 arithmetic of the source *)

RECURSIVE SumBytes(_)
\* bytes.iter().sum() in unbounded arithmetic
SumBytes(s) == IF s = <<>> THEN 0 ELSE Head(s) + SumBytes(Tail(s))

RECURSIVE BitOr(_, _)
\* a | b on unsigned integers
BitOr(a, b) ==
    IF a = 0 THEN b
    ELSE IF b = 0 THEN a
    ELSE (IF (a % 2) + (b % 2) > 0 THEN 1 ELSE 0) + 2 * BitOr(a \div 2, b \div 2)

\* u8::from(bool)
u8_from_bool(b) == IF b THEN 1 ELSE 0

u16_to_le_bytes(v) == <<v % 256, v \div 256>>

\* u16::to_be_bytes
u16_to_be_bytes(v) == <<v \div 256, v % 256>>

\* u32::to_be_bytes; a u32 is held as <<high 16 bits, low 16 bits>>
u32_to_be_bytes(p) == u16_to_be_bytes(p[1]) \o u16_to_be_bytes(p[2])

\* `direction as u8` of enums::RotationDirection
RotationDirection == {"Clockwise", "CounterClockwise"}
RotationDirection_as_u8(d) == IF d = "Clockwise" THEN 0 ELSE 1

\* `logic as u8` of enums::EnLogic
EnLogic == {"Low", "High", "AlwaysOn"}
EnLogic_as_u8(l) == CASE l = "Low" -> 0 [] l = "High" -> 1 [] OTHER -> 2

\* `mode as u8` of enums::ZeroMode
ZeroMode == {"Disable", "DirMode", "NearMode"}
ZeroMode_as_u8(m) == CASE m = "Disable" -> 0 [] m = "DirMode" -> 1 [] OTHER -> 2

\* `operation as u8` of enums::SaveClearStatus
SaveClearStatus == {"Save", "Clear"}
SaveClearStatus_as_u8(s) == IF s = "Save" THEN 200 ELSE 202

\* the match on direction in run_motor / run_with_constant_speed
dir_mask_low(d) == IF d = "Clockwise" THEN 0 ELSE 1

dir_mask(d) == IF d = "Clockwise" THEN 0 ELSE 128

----------------------------------------------------------------------------
(* Inputs the calls are made with *)

AddressSample == {0, 224, 229, 233, 255}
SpeedSample == {0, 1, 127, 128, 255}
IndexSample == {0, 4, 5, 8, 9, 15, 16, 255}
U16Sample == {0, 258, 1200, 1201, 65535}
PulsesSample == {<<0, 0>>, <<0, 100>>, <<258, 772>>, <<65535, 65535>>}

----------------------------------------------------------------------------
(* Result values *)

\* no conversion called yet
NoConversion == [fn |-> "none"]

\* ret before any call was made
NoCall == [ok |-> FALSE, err |-> "none"]
\* res before any parser call on the current bytes
NoResult == [tag |-> "None"]
\* Err(Error::InvalidPacket)
InvalidPacket == [tag |-> "Err", err |-> "InvalidPacket"]
\* the call did not return: a slice or index bounds check failed
Panic == [tag |-> "Panic"]
Ok(v) == [tag |-> "Ok", val |-> v]

----------------------------------------------------------------------------
(* Driver *)

calculate_checksum_nowrap(bytes) == SumBytes(bytes)

calculate_checksum_skip_first(bytes) == SumBytes(Tail(bytes)) % 256

\* bytes.iter().fold(0u8, |acc, &b| acc.wrapping_add(b))
calculate_checksum(bytes) == SumBytes(bytes) % 256

build_command_short(buf, cmd) ==
    LET len == Len(cmd)
        nb == [i \in 1..CMD_BUFFER_SIZE |->
                  IF i <= len THEN cmd[i]
                  ELSE IF i = len + 1 THEN calculate_checksum(cmd)
                  ELSE buf[i]]
    IN [buffer |-> nb, frame |-> SubSeq(nb, 1, len)]

build_command_stale_checksum(buf, cmd) ==
    LET len == Len(cmd)
        nb == [i \in 1..CMD_BUFFER_SIZE |->
                  IF i <= len THEN cmd[i]
                  ELSE IF i = len + 1 THEN calculate_checksum(SubSeq(buf, 1, len))
                  ELSE buf[i]]
    IN [buffer |-> nb, frame |-> SubSeq(nb, 1, len + 1)]

build_command_clearing(buf, cmd) ==
    LET len == Len(cmd)
        nb == [i \in 1..CMD_BUFFER_SIZE |->
                  IF i <= len THEN cmd[i]
                  ELSE IF i = len + 1 THEN calculate_checksum(cmd)
                  ELSE 0]
    IN [buffer |-> nb, frame |-> SubSeq(nb, 1, len + 1)]

\* build_command: copies cmd to buffer[..len], writes the checksum to
\* buffer[len] and returns the view buffer[..=len]
build_command(buf, cmd) ==
    LET len == Len(cmd)
        nb == [i \in 1..CMD_BUFFER_SIZE |->
                  IF i <= len THEN cmd[i]
                  ELSE IF i = len + 1 THEN calculate_checksum(cmd)
                  ELSE buf[i]]
    IN [buffer |-> nb, frame |-> SubSeq(nb, 1, len + 1)]

\* buffer: [0; CMD_BUFFER_SIZE] of Driver::default
ZeroBuffer == [i \in 1..CMD_BUFFER_SIZE |-> 0]

\* a call without arguments
NoArgs == <<>>

Built_default_address(name, a, cmd) ==
    LET c == [cmd EXCEPT ![1] = DEFAULT_ADDRESS]
        b == build_command(buffer, c)
    IN /\ calls < MaxCalls
       /\ buffer' = b.buffer
       /\ ret' = [ok |-> TRUE, frame |-> b.frame]
       /\ op' = name
       /\ calls' = calls + 1
       /\ args' = a
       /\ fresh' = [ok |-> TRUE, frame |-> build_command(ZeroBuffer, c).frame]
       /\ UNCHANGED <<address, kind, data, res, steps, byte, response, query, scan_idx, iters, conv>>

\* a call that reaches build_command and returns its view
Built(name, a, cmd) ==
    LET b == build_command(buffer, cmd)
    IN /\ calls < MaxCalls
       /\ buffer' = b.buffer
       /\ ret' = [ok |-> TRUE, frame |-> b.frame]
       /\ op' = name
       /\ calls' = calls + 1
       /\ args' = a
       /\ fresh' = [ok |-> TRUE, frame |-> build_command(ZeroBuffer, cmd).frame]
       /\ UNCHANGED <<address, kind, data, res, steps, byte, response, query, scan_idx, iters, conv>>

Rejected_after_clearing(name, a) ==
    /\ calls < MaxCalls
    /\ buffer' = ZeroBuffer
    /\ ret' = [ok |-> FALSE, err |-> "InvalidValue"]
    /\ op' = name
    /\ calls' = calls + 1
    /\ args' = a
    /\ fresh' = [ok |-> FALSE, err |-> "InvalidValue"]
    /\ UNCHANGED <<address, kind, data, res, steps, byte, response, query, scan_idx, iters, conv>>

\* a call that returns Err(Error::InvalidValue) before touching the buffer
Rejected(name, a) ==
    /\ calls < MaxCalls
    /\ ret' = [ok |-> FALSE, err |-> "InvalidValue"]
    /\ op' = name
    /\ calls' = calls + 1
    /\ args' = a
    /\ fresh' = [ok |-> FALSE, err |-> "InvalidValue"]
    /\ UNCHANGED <<address, buffer, kind, data, res, steps, byte, response, query, scan_idx, iters, conv>>

enable_motor(enable) ==
    Built("enable_motor", [enable |-> enable], <<address, ENABLE_MOTOR, u8_from_bool(enable)>>)

run_with_constant_speed(direction, speed) ==
    IF speed > MAX_SPEED
    THEN Rejected("run_with_constant_speed", [direction |-> direction, speed |-> speed])
    ELSE Built("run_with_constant_speed", [direction |-> direction, speed |-> speed],
               <<address, RUN_WITH_CONSTANT_SPEED, BitOr(speed, dir_mask(direction))>>)

stop == Built("stop", NoArgs, <<address, STOP>>)

save_clear_status(operation) ==
    Built("save_clear_status", [operation |-> operation],
          <<address, SAVE_CLEAR_STATUS, SaveClearStatus_as_u8(operation)>>)

run_motor_strict(direction, speed, pulses) ==
    IF speed >= MAX_SPEED
    THEN Rejected("run_motor", [direction |-> direction, speed |-> speed, pulses |-> pulses])
    ELSE LET pulse_bytes == u32_to_be_bytes(pulses)
         IN Built("run_motor", [direction |-> direction, speed |-> speed, pulses |-> pulses],
                  <<address, RUN_MOTOR, BitOr(speed, dir_mask(direction)),
                    pulse_bytes[1], pulse_bytes[2], pulse_bytes[3], pulse_bytes[4]>>)

run_motor(direction, speed, pulses) ==
    IF speed > MAX_SPEED
    THEN Rejected("run_motor", [direction |-> direction, speed |-> speed, pulses |-> pulses])
    ELSE LET pulse_bytes == u32_to_be_bytes(pulses)
         IN Built("run_motor", [direction |-> direction, speed |-> speed, pulses |-> pulses],
                  <<address, RUN_MOTOR, BitOr(speed, dir_mask(direction)),
                    pulse_bytes[1], pulse_bytes[2], pulse_bytes[3], pulse_bytes[4]>>)

calibrate_encoder == Built("calibrate_encoder", NoArgs, <<address, CALIBRATE_ENCODER, 0>>)

set_current_limit(index) ==
    IF index > MAX_CURRENT_INDEX
    THEN Rejected("set_current_limit", [index |-> index])
    ELSE Built("set_current_limit", [index |-> index], <<address, SET_CURRENT_LIMIT, index>>)

set_subdivision(step_index) ==
    IF step_index > MAX_SUBDIVISION_INDEX
    THEN Rejected("set_subdivision", [step_index |-> step_index])
    ELSE Built("set_subdivision", [step_index |-> step_index], <<address, SET_SUBDIVISION, step_index>>)

set_enable_logic(logic) ==
    Built("set_enable_logic", [logic |-> logic], <<address, SET_EN_LOGIC, EnLogic_as_u8(logic)>>)

set_direction(direction) ==
    Built("set_direction", [direction |-> direction], <<address, SET_DIRECTION, RotationDirection_as_u8(direction)>>)

set_auto_screen_off_direct(enable) ==
    Built("set_auto_screen_off", [enable |-> enable], <<address, SET_AUTO_SCREEN_OFF, u8_from_bool(enable)>>)

set_auto_screen_off(enable) ==
    Built("set_auto_screen_off", [enable |-> enable], <<address, SET_AUTO_SCREEN_OFF, u8_from_bool(~enable)>>)

set_stall_protection(enable) ==
    Built("set_stall_protection", [enable |-> enable], <<address, SET_PROTECTION, u8_from_bool(~enable)>>)

set_interpolation(enable) ==
    Built("set_interpolation", [enable |-> enable], <<address, SET_INTERPOLATION, u8_from_bool(~enable)>>)

set_zero_mode(mode) ==
    Built("set_zero_mode", [mode |-> mode], <<address, SET_ZERO_MODE, ZeroMode_as_u8(mode)>>)

set_current_as_zero == Built("set_current_as_zero", NoArgs, <<address, SET_CURRENT_AS_ZERO, 0>>)

set_zero_speed(speed) ==
    IF speed > MAX_ZERO_SPEED
    THEN Rejected("set_zero_speed", [speed |-> speed])
    ELSE Built("set_zero_speed", [speed |-> speed], <<address, SET_ZERO_SPEED, speed>>)

go_to_zero == Built("go_to_zero", NoArgs, <<address, GO_TO_ZERO, 0>>)

set_zero_direction(direction) ==
    Built("set_zero_direction", [direction |-> direction],
          <<address, SET_ZERO_DIRECTION, RotationDirection_as_u8(direction)>>)

set_position_kp(value) ==
    LET bytes == u16_to_be_bytes(value)
    IN Built("set_position_kp", [value |-> value], <<address, SET_POSITION_KP, bytes[1], bytes[2]>>)

set_position_ki(value) ==
    LET bytes == u16_to_be_bytes(value)
    IN Built("set_position_ki", [value |-> value], <<address, SET_POSITION_KI, bytes[1], bytes[2]>>)

set_position_kd(value) ==
    LET bytes == u16_to_be_bytes(value)
    IN Built("set_position_kd", [value |-> value], <<address, SET_POSITION_KD, bytes[1], bytes[2]>>)

set_acceleration(value) ==
    LET bytes == u16_to_be_bytes(value)
    IN Built("set_acceleration", [value |-> value], <<address, SET_ACCELERATION, bytes[1], bytes[2]>>)

set_max_torque_strict(value) ==
    IF value >= MAX_TORQUE_LIMIT
    THEN Rejected("set_max_torque", [value |-> value])
    ELSE LET bytes == u16_to_be_bytes(value)
         IN Built("set_max_torque", [value |-> value], <<address, SET_MAX_TORQUE, bytes[1], bytes[2]>>)

set_max_torque(value) ==
    IF value > MAX_TORQUE_LIMIT
    THEN Rejected("set_max_torque", [value |-> value])
    ELSE LET bytes == u16_to_be_bytes(value)
         IN Built("set_max_torque", [value |-> value], <<address, SET_MAX_TORQUE, bytes[1], bytes[2]>>)

read_shaft_status == Built("read_shaft_status", NoArgs, <<address, READ_SHAFT_STATUS>>)

read_encoder_value == Built("read_encoder_value", NoArgs, <<address, READ_ENCODER_VALUE>>)

read_pulse_count == Built("read_pulse_count", NoArgs, <<address, READ_PULSE_COUNT>>)

read_motor_shaft_angle == Built("read_motor_shaft_angle", NoArgs, <<address, READ_MOTOR_SHAFT_ANGLE>>)

read_en_pin_status == Built("read_en_pin_status", NoArgs, <<address, READ_EN_PIN_STATUS>>)

read_motor_shaft_angle_error ==
    Built("read_motor_shaft_angle_error", NoArgs, <<address, READ_MOTOR_SHAFT_ANGLE_ERROR>>)

read_release_status == Built("read_release_status", NoArgs, <<address, READ_RELEASE_STATUS>>)

----------------------------------------------------------------------------
(* Response parsers (helpers.rs).  idx is the 0-based offset of the source; *)
(* data[idx] of the source is d[idx + 1] here.                              *)

i32_from_le_bytes(b) ==
    (IF b[4] >= 128 THEN b[4] - 256 ELSE b[4]) * 16777216
        + b[3] * 65536 + b[2] * 256 + b[1]

\* i32::from_be_bytes
i32_from_be_bytes(b) ==
    (IF b[1] >= 128 THEN b[1] - 256 ELSE b[1]) * 16777216
        + b[2] * 65536 + b[3] * 256 + b[4]

u16_from_le_bytes(b) == b[2] * 256 + b[1]

\* u16::from_be_bytes
u16_from_be_bytes(b) == b[1] * 256 + b[2]

\* i16::from_be_bytes
i16_from_be_bytes(b) ==
    (IF b[1] >= 128 THEN b[1] - 256 ELSE b[1]) * 256 + b[2]

in_address_range_wide(b) == b >= MIN_ADDRESS - 1 /\ b <= MAX_ADDRESS

\* data[idx] >= MIN_ADDRESS && data[idx] <= MAX_ADDRESS
in_address_range(b) == b >= MIN_ADDRESS /\ b <= MAX_ADDRESS

\* the slice data[from..to] (0-based, to exclusive)
Slice(d, from, to) == SubSeq(d, from + 1, to)

RECURSIVE parse_encoder_scan_tail(_, _)
parse_encoder_scan_tail(d, idx) ==
    IF ~(idx < Len(d)) THEN InvalidPacket
    ELSE IF in_address_range(d[idx + 1]) /\ idx + 5 < Len(d)
    THEN IF idx + 7 > Len(d) THEN Panic
         ELSE IF ~(idx + 7 < Len(d)) THEN Panic
         ELSE IF SumBytes(Slice(d, idx, idx + 7)) % 256 = d[idx + 8] /\ idx + 8 = Len(d)
         THEN Ok([carry |-> i32_from_be_bytes(Slice(d, idx + 1, idx + 5)),
                  value |-> u16_from_be_bytes(Slice(d, idx + 5, idx + 7))])
         ELSE parse_encoder_scan_tail(d, idx + 1)
    ELSE parse_encoder_scan_tail(d, idx + 1)

RECURSIVE parse_encoder_scan(_, _)
\* the while loop of parse_encoder_response from offset idx on
parse_encoder_scan(d, idx) ==
    IF ~(idx < Len(d)) THEN InvalidPacket
    ELSE IF in_address_range(d[idx + 1]) /\ idx + 5 < Len(d)
    THEN IF idx + 7 > Len(d) THEN Panic            \* data[idx..idx + 7]
         ELSE IF ~(idx + 7 < Len(d)) THEN Panic    \* data[idx + 7]
         ELSE IF SumBytes(Slice(d, idx, idx + 7)) % 256 = d[idx + 8]
         THEN Ok([carry |-> i32_from_be_bytes(Slice(d, idx + 1, idx + 5)),
                  value |-> u16_from_be_bytes(Slice(d, idx + 5, idx + 7))])
         ELSE parse_encoder_scan(d, idx + 1)
    ELSE parse_encoder_scan(d, idx + 1)

parse_encoder_response(d) == parse_encoder_scan(d, 0)

RECURSIVE parse_motor_shaft_angle_error_scan_giveup(_, _)
parse_motor_shaft_angle_error_scan_giveup(d, idx) ==
    IF ~(idx < Len(d)) THEN InvalidPacket
    ELSE IF in_address_range(d[idx + 1]) /\ idx + 4 < Len(d)
    THEN IF d[idx + 5] # 0
         THEN parse_motor_shaft_angle_error_scan_giveup(d, idx + 1)
         ELSE IF SumBytes(Slice(d, idx, idx + 3)) % 256 # d[idx + 4]
         THEN InvalidPacket
         ELSE Ok([value |-> i16_from_be_bytes(Slice(d, idx + 1, idx + 3))])
    ELSE parse_motor_shaft_angle_error_scan_giveup(d, idx + 1)

RECURSIVE parse_motor_shaft_angle_error_scan_notrailer(_, _)
parse_motor_shaft_angle_error_scan_notrailer(d, idx) ==
    IF ~(idx < Len(d)) THEN InvalidPacket
    ELSE IF in_address_range(d[idx + 1]) /\ idx + 4 < Len(d)
    THEN IF SumBytes(Slice(d, idx, idx + 3)) % 256 # d[idx + 4]
         THEN parse_motor_shaft_angle_error_scan_notrailer(d, idx + 1)
         ELSE Ok([value |-> i16_from_be_bytes(Slice(d, idx + 1, idx + 3))])
    ELSE parse_motor_shaft_angle_error_scan_notrailer(d, idx + 1)

RECURSIVE parse_motor_shaft_angle_error_scan(_, _)
\* the while loop of parse_motor_shaft_angle_error from offset idx on
parse_motor_shaft_angle_error_scan(d, idx) ==
    IF ~(idx < Len(d)) THEN InvalidPacket
    ELSE IF in_address_range(d[idx + 1]) /\ idx + 4 < Len(d)
    THEN IF d[idx + 5] # 0
         THEN parse_motor_shaft_angle_error_scan(d, idx + 1)
         ELSE IF SumBytes(Slice(d, idx, idx + 3)) % 256 # d[idx + 4]
         THEN parse_motor_shaft_angle_error_scan(d, idx + 1)
         ELSE Ok([value |-> i16_from_be_bytes(Slice(d, idx + 1, idx + 3))])
    ELSE parse_motor_shaft_angle_error_scan(d, idx + 1)

parse_motor_shaft_angle_error(d) == parse_motor_shaft_angle_error_scan(d, 0)

RECURSIVE parse_motor_shaft_angle_scan_shortguard(_, _)
parse_motor_shaft_angle_scan_shortguard(d, idx) ==
    IF ~(idx < Len(d)) THEN InvalidPacket
    ELSE IF d[idx + 1] >= 224 /\ d[idx + 1] <= 233 /\ idx + 3 < Len(d)
    THEN IF ~(idx + 5 < Len(d)) THEN Panic
         ELSE IF SumBytes(Slice(d, idx, idx + 5)) % 256 = d[idx + 6]
         THEN Ok([value |-> i32_from_be_bytes(Slice(d, idx + 1, idx + 5))])
         ELSE parse_motor_shaft_angle_scan_shortguard(d, idx + 1)
    ELSE parse_motor_shaft_angle_scan_shortguard(d, idx + 1)

RECURSIVE parse_motor_shaft_angle_scan(_, _)
\* the while loop of parse_motor_shaft_angle_response from offset idx on
parse_motor_shaft_angle_scan(d, idx) ==
    IF ~(idx < Len(d)) THEN InvalidPacket
    ELSE IF d[idx + 1] >= 224 /\ d[idx + 1] <= 233 /\ idx + 5 < Len(d)
    THEN IF SumBytes(Slice(d, idx, idx + 5)) % 256 = d[idx + 6]
         THEN Ok([value |-> i32_from_be_bytes(Slice(d, idx + 1, idx + 5))])
         ELSE parse_motor_shaft_angle_scan(d, idx + 1)
    ELSE parse_motor_shaft_angle_scan(d, idx + 1)

parse_motor_shaft_angle_response(d) == parse_motor_shaft_angle_scan(d, 0)

\* the match on status_byte in parse_en_pin_status_response
en_pin_status_match(status_byte) ==
    CASE status_byte = 1 -> Ok("Enabled")
      [] status_byte = 2 -> Ok("Disabled")
      [] status_byte = 0 -> Ok("Error")
      [] OTHER -> InvalidPacket

parse_en_pin_status_scan_nosync(d, idx) ==
    IF ~(idx < Len(d)) THEN InvalidPacket
    ELSE IF in_address_range(d[idx + 1]) /\ idx + 2 < Len(d)
    THEN IF SumBytes(Slice(d, idx, idx + 2)) % 256 = d[idx + 3]
         THEN en_pin_status_match(d[idx + 2])
         ELSE InvalidPacket
    ELSE InvalidPacket

RECURSIVE parse_en_pin_status_scan(_, _)
\* the while loop of parse_en_pin_status_response from offset idx on
parse_en_pin_status_scan(d, idx) ==
    IF ~(idx < Len(d)) THEN InvalidPacket
    ELSE IF in_address_range(d[idx + 1]) /\ idx + 2 < Len(d)
    THEN IF SumBytes(Slice(d, idx, idx + 2)) % 256 = d[idx + 3]
         THEN en_pin_status_match(d[idx + 2])
         ELSE parse_en_pin_status_scan(d, idx + 1)
    ELSE parse_en_pin_status_scan(d, idx + 1)

parse_en_pin_status_response(d) == parse_en_pin_status_scan(d, 0)

shaft_status_match_lenient(status_byte) ==
    CASE status_byte = 1 -> Ok("Blocked")
      [] status_byte = 2 -> Ok("Unblocked")
      [] OTHER -> Ok("Error")

\* the match on status_byte in parse_shaft_status_response
shaft_status_match(status_byte) ==
    CASE status_byte = 1 -> Ok("Blocked")
      [] status_byte = 2 -> Ok("Unblocked")
      [] status_byte = 0 -> Ok("Error")
      [] OTHER -> InvalidPacket

RECURSIVE parse_shaft_status_windows(_, _)
\* the loop over data.windows(3) from the window at offset w on
parse_shaft_status_windows(d, w) ==
    IF w + 3 > Len(d) THEN InvalidPacket
    ELSE LET addr == d[w + 1]
             status_byte == d[w + 2]
             checksum == d[w + 3]
             expected_checksum == (addr + status_byte) % 256
         IN IF ~in_address_range(addr)
            THEN parse_shaft_status_windows(d, w + 1)
            ELSE IF checksum # expected_checksum
            THEN parse_shaft_status_windows(d, w + 1)
            ELSE shaft_status_match(status_byte)

parse_shaft_status_response(d) ==
    IF Len(d) < 3 THEN InvalidPacket ELSE parse_shaft_status_windows(d, 0)

----------------------------------------------------------------------------
(* The receive side: what the transport hands to the parsers *)

Kinds == {"encoder", "shaft_angle", "shaft_angle_error", "en_pin_status", "shaft_status"}

\* length of the response frame of each kind
FrameLen(k) ==
    CASE k = "encoder" -> 8
      [] k = "shaft_angle" -> 6
      [] k = "shaft_angle_error" -> 5
      [] OTHER -> 3

\* number of leading bytes of a frame its checksum byte sums
ChecksumSpan(k) ==
    CASE k = "encoder" -> 7
      [] k = "shaft_angle" -> 5
      [] k = "shaft_angle_error" -> 3
      [] OTHER -> 2

\* first bytes a device answers with, in and just outside MIN..MAX_ADDRESS
FrameAddressSample == {223, 224, 233}

\* payload bytes (between address and checksum) a device answers with
PayloadSample(k) ==
    CASE k = "encoder" ->
            {<<0, 0, 0, 0, 64, 0>>, <<255, 255, 255, 254, 255, 255>>,
             <<224, 0, 0, 0, 0, 1>>}
      [] k = "shaft_angle" ->
            {<<0, 0, 64, 0>>, <<255, 255, 192, 0>>, <<128, 0, 0, 0>>}
      [] k = "shaft_angle_error" ->
            {<<0, 183>>, <<255, 74>>, <<127, 255>>}
      [] OTHER -> {<<0>>, <<1>>, <<2>>, <<3>>, <<255>>}

\* bytes after the checksum byte: the trailing byte of the angle-error answer
TrailerSample(k) == IF k = "shaft_angle_error" THEN {<<0>>, <<1>>} ELSE {<<>>}

\* bytes of line noise
NoiseSample == {224, 255}

\* bits a transmission error flips
BitSample == 0..7

\* the answer of a device: address, payload, checksum over them, trailer
DeviceFrame(a, payload, trailer) ==
    <<a>> \o payload \o <<SumBytes(<<a>> \o payload) % 256>> \o trailer

\* b with bit k inverted
FlipBit(b, k) == IF (b \div (2 ^ k)) % 2 = 1 THEN b - 2 ^ k ELSE b + 2 ^ k

\* position (1-based) of the checksum byte of a frame that ends the buffer
ChecksumPos(k, d) == Len(d) - FrameLen(k) + ChecksumSpan(k) + 1

\* the last FrameLen bytes of the buffer are an intact answer of kind k
EndsWithFrame(k, d) ==
    /\ Len(d) >= FrameLen(k)
    /\ LET f == SubSeq(d, Len(d) - FrameLen(k) + 1, Len(d))
       IN f[ChecksumSpan(k) + 1] = SumBytes(SubSeq(f, 1, ChecksumSpan(k))) % 256

\* a whole answer arrives
RecvFrame(a, payload, trailer) ==
    /\ kind # "none"
    /\ steps < MaxSteps
    /\ data' = data \o DeviceFrame(a, payload, trailer)
    /\ res' = NoResult
    /\ steps' = steps + 1
    /\ UNCHANGED <<address, buffer, op, ret, calls, kind, args, fresh, byte, response, query, scan_idx, iters, conv>>

\* a stray byte arrives
RecvNoise(b) ==
    /\ kind # "none"
    /\ steps < MaxSteps
    /\ data' = Append(data, b)
    /\ res' = NoResult
    /\ steps' = steps + 1
    /\ UNCHANGED <<address, buffer, op, ret, calls, kind, args, fresh, byte, response, query, scan_idx, iters, conv>>

\* the read returned one byte less: the last byte has not arrived
ShortRead ==
    /\ kind # "none"
    /\ steps < MaxSteps
    /\ data # <<>>
    /\ data' = SubSeq(data, 1, Len(data) - 1)
    /\ res' = NoResult
    /\ steps' = steps + 1
    /\ UNCHANGED <<address, buffer, op, ret, calls, kind, args, fresh, byte, response, query, scan_idx, iters, conv>>

\* a bit error in the checksum byte of the answer that ends the buffer
BitError(k) ==
    /\ kind # "none"
    /\ steps < MaxSteps
    /\ EndsWithFrame(kind, data)
    /\ data' = [data EXCEPT ![ChecksumPos(kind, data)] = FlipBit(@, k)]
    /\ res' = NoResult
    /\ steps' = steps + 1
    /\ UNCHANGED <<address, buffer, op, ret, calls, kind, args, fresh, byte, response, query, scan_idx, iters, conv>>

\* the caller hands the bytes to the parser for the answer it waits for
Parsed(k, r) ==
    /\ kind = k
    /\ res' = r
    /\ UNCHANGED <<address, buffer, op, ret, calls, kind, data, steps,
                   args, fresh, byte, response, query, scan_idx, iters, conv>>

call_parse_encoder_response == Parsed("encoder", parse_encoder_response(data))

call_parse_motor_shaft_angle_response ==
    Parsed("shaft_angle", parse_motor_shaft_angle_response(data))

call_parse_motor_shaft_angle_error ==
    Parsed("shaft_angle_error", parse_motor_shaft_angle_error(data))

call_parse_en_pin_status_response ==
    Parsed("en_pin_status", parse_en_pin_status_response(data))

call_parse_shaft_status_response ==
    Parsed("shaft_status", parse_shaft_status_response(data))

\* the parser that call_parse_... of kind k applies
Parser(k, d) ==
    CASE k = "encoder" -> parse_encoder_response(d)
      [] k = "shaft_angle" -> parse_motor_shaft_angle_response(d)
      [] k = "shaft_angle_error" -> parse_motor_shaft_angle_error(d)
      [] k = "en_pin_status" -> parse_en_pin_status_response(d)
      [] OTHER -> parse_shaft_status_response(d)

----------------------------------------------------------------------------
(* Construction *)

\* Driver::with_address(a); Driver::default() is the case a = DEFAULT_ADDRESS
with_address(a) ==
    /\ address = a
    /\ buffer = [i \in 1..CMD_BUFFER_SIZE |-> 0]

Init ==
    /\ \E a \in AddressSample : with_address(a)
    /\ op = "none"
    /\ ret = NoCall
    /\ calls = 0
    /\ kind = "none"
    /\ data = <<>>
    /\ res = NoResult
    /\ steps = 0
    /\ args = NoArgs
    /\ fresh = NoCall
    /\ byte = 0
    /\ response = NoResult
    /\ query = NoResult
    /\ scan_idx = 0
    /\ iters = 0
    /\ conv = NoConversion

Next ==
    \/ \E e \in BOOLEAN : enable_motor(e)
    \/ \E d \in RotationDirection, s \in SpeedSample : run_with_constant_speed(d, s)
    \/ stop
    \/ \E o \in SaveClearStatus : save_clear_status(o)
    \/ \E d \in RotationDirection, s \in SpeedSample, p \in PulsesSample : run_motor(d, s, p)
    \/ calibrate_encoder
    \/ \E i \in IndexSample : set_current_limit(i)
    \/ \E i \in IndexSample : set_subdivision(i)
    \/ \E l \in EnLogic : set_enable_logic(l)
    \/ \E d \in RotationDirection : set_direction(d)
    \/ \E e \in BOOLEAN : set_auto_screen_off(e)
    \/ \E e \in BOOLEAN : set_stall_protection(e)
    \/ \E e \in BOOLEAN : set_interpolation(e)
    \/ \E m \in ZeroMode : set_zero_mode(m)
    \/ set_current_as_zero
    \/ \E s \in IndexSample : set_zero_speed(s)
    \/ go_to_zero
    \/ \E d \in RotationDirection : set_zero_direction(d)
    \/ \E v \in U16Sample : set_position_kp(v)
    \/ \E v \in U16Sample : set_position_ki(v)
    \/ \E v \in U16Sample : set_position_kd(v)
    \/ \E v \in U16Sample : set_acceleration(v)
    \/ \E v \in U16Sample : set_max_torque(v)
    \/ read_shaft_status
    \/ read_encoder_value
    \/ read_pulse_count
    \/ read_motor_shaft_angle
    \/ read_en_pin_status
    \/ read_motor_shaft_angle_error
    \/ read_release_status

Spec == Init /\ [][Next]_vars

ParserInit ==
    /\ with_address(DEFAULT_ADDRESS)
    /\ op = "none"
    /\ ret = NoCall
    /\ calls = 0
    /\ kind \in Kinds
    /\ data = <<>>
    /\ res = NoResult
    /\ steps = 0
    /\ args = NoArgs
    /\ fresh = NoCall
    /\ byte = 0
    /\ response = NoResult
    /\ query = NoResult
    /\ scan_idx = 0
    /\ iters = 0
    /\ conv = NoConversion

ParserNext ==
    \/ \E a \in FrameAddressSample, p \in PayloadSample(kind), t \in TrailerSample(kind) :
           RecvFrame(a, p, t)
    \/ \E b \in NoiseSample : RecvNoise(b)
    \/ ShortRead
    \/ \E k \in BitSample : BitError(k)
    \/ call_parse_encoder_response
    \/ call_parse_motor_shaft_angle_response
    \/ call_parse_motor_shaft_angle_error
    \/ call_parse_en_pin_status_response
    \/ call_parse_shaft_status_response

ParserSpec == ParserInit /\ [][ParserNext]_vars

----------------------------------------------------------------------------
(* Response (response.rs) *)

\* Err(InvalidResponse)
InvalidResponse == [tag |-> "Err", err |-> "InvalidResponse"]

Response_try_from_nonzero(v) ==
    CASE v = 0 -> Ok("Failure")
      [] OTHER -> Ok("Success")

\* impl TryFrom<u8> for Response
Response_try_from(v) ==
    CASE v = 0 -> Ok("Failure")
      [] v = 1 -> Ok("Success")
      [] OTHER -> InvalidResponse

\* matches!(self, Self::Success)
is_success(r) == r = "Success"

\* matches!(self, Self::Failure)
is_failure(r) == r = "Failure"

\* Response::try_from(byte)
call_try_from ==
    /\ response' = Response_try_from(byte)
    /\ query' = NoResult
    /\ UNCHANGED <<address, buffer, op, ret, calls, kind, data, res, steps,
                   args, fresh, byte, scan_idx, iters, conv>>

\* response.is_success() on the Response that try_from returned
call_is_success ==
    /\ response.tag = "Ok"
    /\ query' = [tag |-> "is_success", val |-> is_success(response.val)]
    /\ UNCHANGED <<address, buffer, op, ret, calls, kind, data, res, steps,
                   args, fresh, byte, response, scan_idx, iters, conv>>

\* response.is_failure() on the Response that try_from returned
call_is_failure ==
    /\ response.tag = "Ok"
    /\ query' = [tag |-> "is_failure", val |-> is_failure(response.val)]
    /\ UNCHANGED <<address, buffer, op, ret, calls, kind, data, res, steps,
                   args, fresh, byte, response, scan_idx, iters, conv>>

ResponseInit ==
    /\ with_address(DEFAULT_ADDRESS)
    /\ op = "none"
    /\ ret = NoCall
    /\ calls = 0
    /\ kind = "none"
    /\ data = <<>>
    /\ res = NoResult
    /\ steps = 0
    /\ args = NoArgs
    /\ fresh = NoCall
    /\ byte \in 0..255
    /\ response = NoResult
    /\ query = NoResult
    /\ scan_idx = 0
    /\ iters = 0
    /\ conv = NoConversion

ResponseNext ==
    \/ call_try_from
    \/ call_is_success
    \/ call_is_failure

ResponseSpec == ResponseInit /\ [][ResponseNext]_vars

----------------------------------------------------------------------------
(* Round trip: a built frame handed to a parser *)

\* the bytes the driver returned come back as the received bytes
Loopback ==
    /\ ret.ok
    /\ data' = ret.frame
    /\ res' = NoResult
    /\ UNCHANGED <<address, buffer, op, ret, calls, kind, steps,
                   args, fresh, byte, response, query, scan_idx, iters, conv>>

RoundTripInit ==
    /\ \E a \in AddressSample : with_address(a)
    /\ op = "none"
    /\ ret = NoCall
    /\ calls = 0
    /\ kind = "encoder"
    /\ data = <<>>
    /\ res = NoResult
    /\ steps = 0
    /\ args = NoArgs
    /\ fresh = NoCall
    /\ byte = 0
    /\ response = NoResult
    /\ query = NoResult
    /\ scan_idx = 0
    /\ iters = 0
    /\ conv = NoConversion

RoundTripNext ==
    \/ \E d \in RotationDirection, s \in SpeedSample, p \in PulsesSample : run_motor(d, s, p)
    \/ Loopback
    \/ call_parse_encoder_response

RoundTripSpec == RoundTripInit /\ [][RoundTripNext]_vars

----------------------------------------------------------------------------
(* The scan loops of the parsers, one loop iteration per step *)

\* the iteration ends at the bottom of the loop body or at a `continue`
Continue(next_idx) == [tag |-> "Continue", idx |-> next_idx]

\* body of the while loop of parse_encoder_response at offset idx
parse_encoder_iteration(d, idx) ==
    IF in_address_range(d[idx + 1]) /\ idx + 5 < Len(d)
    THEN IF idx + 7 > Len(d) THEN Panic
         ELSE IF ~(idx + 7 < Len(d)) THEN Panic
         ELSE IF SumBytes(Slice(d, idx, idx + 7)) % 256 = d[idx + 8]
         THEN Ok([carry |-> i32_from_be_bytes(Slice(d, idx + 1, idx + 5)),
                  value |-> u16_from_be_bytes(Slice(d, idx + 5, idx + 7))])
         ELSE Continue(idx + 1)
    ELSE Continue(idx + 1)

parse_motor_shaft_angle_error_iteration_stuck(d, idx) ==
    IF in_address_range(d[idx + 1]) /\ idx + 4 < Len(d)
    THEN IF d[idx + 5] # 0 THEN Continue(idx)
         ELSE IF SumBytes(Slice(d, idx, idx + 3)) % 256 # d[idx + 4] THEN Continue(idx + 1)
         ELSE Ok([value |-> i16_from_be_bytes(Slice(d, idx + 1, idx + 3))])
    ELSE Continue(idx + 1)

\* body of the while loop of parse_motor_shaft_angle_error at offset idx,
\* with its two `idx += 1; continue;` paths
parse_motor_shaft_angle_error_iteration(d, idx) ==
    IF in_address_range(d[idx + 1]) /\ idx + 4 < Len(d)
    THEN IF d[idx + 5] # 0 THEN Continue(idx + 1)
         ELSE IF SumBytes(Slice(d, idx, idx + 3)) % 256 # d[idx + 4] THEN Continue(idx + 1)
         ELSE Ok([value |-> i16_from_be_bytes(Slice(d, idx + 1, idx + 3))])
    ELSE Continue(idx + 1)

\* body of the while loop of parse_motor_shaft_angle_response at offset idx
parse_motor_shaft_angle_iteration(d, idx) ==
    IF d[idx + 1] >= 224 /\ d[idx + 1] <= 233 /\ idx + 5 < Len(d)
    THEN IF SumBytes(Slice(d, idx, idx + 5)) % 256 = d[idx + 6]
         THEN Ok([value |-> i32_from_be_bytes(Slice(d, idx + 1, idx + 5))])
         ELSE Continue(idx + 1)
    ELSE Continue(idx + 1)

\* body of the while loop of parse_en_pin_status_response at offset idx
parse_en_pin_status_iteration(d, idx) ==
    IF in_address_range(d[idx + 1]) /\ idx + 2 < Len(d)
    THEN IF SumBytes(Slice(d, idx, idx + 2)) % 256 = d[idx + 3]
         THEN en_pin_status_match(d[idx + 2])
         ELSE Continue(idx + 1)
    ELSE Continue(idx + 1)

\* body of the for loop of parse_shaft_status_response on the window that
\* starts at offset w; the windows(3) iterator moves on by one
parse_shaft_status_iteration(d, w) ==
    LET addr == d[w + 1]
        status_byte == d[w + 2]
        checksum == d[w + 3]
        expected_checksum == (addr + status_byte) % 256
    IN IF ~in_address_range(addr) THEN Continue(w + 1)
       ELSE IF checksum # expected_checksum THEN Continue(w + 1)
       ELSE shaft_status_match(status_byte)

\* the loop condition holds and the body runs once
Iterate(r) ==
    /\ iters' = iters + 1
    /\ IF r.tag = "Continue"
       THEN scan_idx' = r.idx /\ res' = res
       ELSE scan_idx' = scan_idx /\ res' = r

\* the loop condition fails: the function returns Err(InvalidPacket)
LoopExit ==
    /\ res' = InvalidPacket
    /\ UNCHANGED <<scan_idx, iters>>

\* one evaluation of `while idx < data.len()` and, if it holds, of the body
WhileStep(k, r) ==
    /\ kind = k
    /\ res = NoResult
    /\ iters <= Len(data)
    /\ IF scan_idx < Len(data) THEN Iterate(r) ELSE LoopExit
    /\ UNCHANGED <<address, buffer, op, ret, calls, kind, data, steps,
                   args, fresh, byte, response, query, conv>>

step_parse_encoder_response ==
    WhileStep("encoder", parse_encoder_iteration(data, scan_idx))

step_parse_motor_shaft_angle_error ==
    WhileStep("shaft_angle_error", parse_motor_shaft_angle_error_iteration(data, scan_idx))

step_parse_motor_shaft_angle_response ==
    WhileStep("shaft_angle", parse_motor_shaft_angle_iteration(data, scan_idx))

step_parse_en_pin_status_response ==
    WhileStep("en_pin_status", parse_en_pin_status_iteration(data, scan_idx))

\* the early return for len < 3, then one step of `for window in data.windows(3)`
step_parse_shaft_status_response ==
    /\ kind = "shaft_status"
    /\ res = NoResult
    /\ iters <= Len(data)
    /\ IF Len(data) >= 3 /\ scan_idx + 3 <= Len(data)
       THEN Iterate(parse_shaft_status_iteration(data, scan_idx))
       ELSE LoopExit
    /\ UNCHANGED <<address, buffer, op, ret, calls, kind, data, steps,
                   args, fresh, byte, response, query, conv>>

\* longest run of stray bytes in front of and behind an answer
MaxNoise == 2

\* runs of at most n stray bytes
NoiseRuns(n) == UNION {[1..m -> NoiseSample] : m \in 0..n}

\* an answer as sent, with a bit error in its checksum byte, cut short by one
\* byte, or missing
AnswerSample(k) ==
    LET sent == {DeviceFrame(a, p, t) :
                    a \in FrameAddressSample, p \in PayloadSample(k), t \in TrailerSample(k)}
    IN sent
       \cup {[f EXCEPT ![ChecksumSpan(k) + 1] = FlipBit(@, 0)] : f \in sent}
       \cup {SubSeq(f, 1, Len(f) - 1) : f \in sent}
       \cup {<<>>}

\* the slices a parser is called on
ScanInputs(k) ==
    {p \o f \o s : p \in NoiseRuns(MaxNoise), f \in AnswerSample(k), s \in NoiseRuns(MaxNoise)}

\* a parser has just been called: idx = 0, nothing returned yet
ScanInit ==
    /\ with_address(DEFAULT_ADDRESS)
    /\ op = "none"
    /\ ret = NoCall
    /\ calls = 0
    /\ kind \in Kinds
    /\ data \in ScanInputs(kind)
    /\ res = NoResult
    /\ steps = 0
    /\ args = NoArgs
    /\ fresh = NoCall
    /\ byte = 0
    /\ response = NoResult
    /\ query = NoResult
    /\ scan_idx = 0
    /\ iters = 0
    /\ conv = NoConversion

ScanNext ==
    \/ step_parse_encoder_response
    \/ step_parse_motor_shaft_angle_error
    \/ step_parse_motor_shaft_angle_response
    \/ step_parse_en_pin_status_response
    \/ step_parse_shaft_status_response

\* a call that has started runs on: nothing else holds the thread
ScanSpec == ScanInit /\ [][ScanNext]_vars /\ WF_vars(ScanNext)

----------------------------------------------------------------------------
(* f32 arithmetic of the numeric helpers: IEEE 754 binary32, round to
   nearest, ties to even.  A finite f32 is [s, m, e] and stands for
   (-1)^s * m * 2^e, with m = 0 or 2^23 <= m < 2^24.  The samples stay
   clear of subnormals, infinities and NaN. *)

Pow2(n) == 2 ^ n

RECURSIVE BitLen(_)
\* number of bits of the natural n
BitLen(n) == IF n = 0 THEN 0 ELSE 1 + BitLen(n \div 2)

f32_zero == [s |-> 0, m |-> 0, e |-> 0]

\* the f32 nearest to (-1)^s * (sig + t) * 2^e, where 0 < t < 1 if sticky
\* and t = 0 if not; sig has at least 26 bits whenever sticky holds
f32_round(s, sig, e, sticky) ==
    LET n == BitLen(sig)
    IN IF sig = 0 THEN f32_zero
       ELSE IF n <= 24 THEN [s |-> s, m |-> sig * Pow2(24 - n), e |-> e - (24 - n)]
       ELSE LET shift == n - 24
                q == sig \div Pow2(shift)
                rem == sig % Pow2(shift)
                half == Pow2(shift - 1)
                up == \/ rem > half
                      \/ (rem = half /\ sticky)
                      \/ (rem = half /\ ~sticky /\ q % 2 = 1)
                r == IF up THEN q + 1 ELSE q
            IN IF r = Pow2(24)
               THEN [s |-> s, m |-> Pow2(23), e |-> e + shift + 1]
               ELSE [s |-> s, m |-> r, e |-> e + shift]

\* f32::from(v) for i16 / u16 and `v as f32` for i32
f32_from_int(v) == f32_round(IF v < 0 THEN 1 ELSE 0, IF v < 0 THEN 0 - v ELSE v, 0, FALSE)

\* the literal n * 2^k, n an integer of at most 24 bits
f32_lit(n, k) == f32_round(IF n < 0 THEN 1 ELSE 0, IF n < 0 THEN 0 - n ELSE n, k, FALSE)

\* a * b, the 48-bit product of the mantissas formed from 12-bit limbs
f32_mul(a, b) ==
    IF a.m = 0 \/ b.m = 0 THEN [f32_zero EXCEPT !.s = (a.s + b.s) % 2]
    ELSE LET a1 == a.m \div 4096
             a0 == a.m % 4096
             b1 == b.m \div 4096
             b0 == b.m % 4096
             p0 == a0 * b0
             mid == a1 * b0 + a0 * b1 + (p0 \div 4096)
             hi == a1 * b1 + (mid \div 4096)
             rest == (mid % 4096) * 4096 + (p0 % 4096)
         IN f32_round((a.s + b.s) % 2,
                      hi * 4 + (rest \div Pow2(22)),
                      a.e + b.e + 22,
                      rest % Pow2(22) # 0)

RECURSIVE DivBits(_, _, _, _)
\* n more quotient bits of r / d by long division: <<quotient, remainder>>
DivBits(q, r, d, n) ==
    IF n = 0 THEN <<q, r>>
    ELSE IF 2 * r >= d THEN DivBits(2 * q + 1, 2 * r - d, d, n - 1)
    ELSE DivBits(2 * q, 2 * r, d, n - 1)

\* a / b for b # 0
f32_div(a, b) ==
    IF a.m = 0 THEN [f32_zero EXCEPT !.s = (a.s + b.s) % 2]
    ELSE LET qr == DivBits(a.m \div b.m, a.m % b.m, b.m, 26)
         IN f32_round((a.s + b.s) % 2, qr[1], a.e - b.e - 26, qr[2] # 0)

\* |a| >= |b|
f32_mag_ge(a, b) ==
    \/ b.m = 0
    \/ (a.m # 0 /\ (a.e > b.e \/ (a.e = b.e /\ a.m >= b.m)))

\* a + b: the smaller operand is shifted to the exponent of the larger one
\* with three guard bits and a sticky flag for what is shifted out
f32_add(a, b) ==
    IF b.m = 0 THEN a
    ELSE IF a.m = 0 THEN b
    ELSE LET x == IF f32_mag_ge(a, b) THEN a ELSE b
             y == IF f32_mag_ge(a, b) THEN b ELSE a
             d == x.e - y.e
             ys == IF d >= 27 THEN 0 ELSE (y.m * 8) \div Pow2(d)
             lost == IF d >= 27 THEN TRUE ELSE (y.m * 8) % Pow2(d) # 0
             sig == IF x.s = y.s THEN x.m * 8 + ys
                    ELSE x.m * 8 - ys - (IF lost THEN 1 ELSE 0)
         IN IF sig = 0 /\ ~lost THEN f32_zero
            ELSE f32_round(x.s, sig, x.e - 3, lost)

\* `x as u32`: toward zero, saturating; a u32 is <<high 16 bits, low 16 bits>>
f32_as_u32(x) ==
    IF x.s = 1 \/ x.m = 0 \/ x.e <= -24 THEN <<0, 0>>
    ELSE IF x.e >= 9 THEN <<65535, 65535>>
    ELSE IF x.e <= 0
    THEN LET v == x.m \div Pow2(0 - x.e) IN <<v \div 65536, v % 65536>>
    ELSE <<x.m \div Pow2(16 - x.e), (x.m % Pow2(16 - x.e)) * Pow2(x.e)>>

STEPS_PER_REV == f32_lit(200, 0)
ENCODER_RESOLUTION == f32_lit(65536, 0)

\* helpers::angle_to_steps
angle_to_steps(angle, microsteps) ==
    LET steps_f32 == f32_mul(f32_mul(f32_div(angle, f32_lit(360, 0)), STEPS_PER_REV), microsteps)
    IN f32_as_u32(f32_add(steps_f32, f32_lit(1, -1)))

\* helpers::encoder_val_to_degrees
encoder_val_to_degrees(val) ==
    f32_mul(f32_div(f32_from_int(val), ENCODER_RESOLUTION), f32_lit(360, 0))

\* EncoderValue::to_degrees
EncoderValue_to_degrees(self) ==
    LET degrees == f32_mul(f32_div(f32_from_int(self.value), ENCODER_RESOLUTION), f32_lit(360, 0))
    IN f32_add(f32_mul(f32_from_int(self.carry), f32_lit(360, 0)), degrees)

ShaftErrValue_to_degrees_encoder_scale(self) ==
    f32_mul(f32_div(f32_from_int(self.value), f32_lit(65536, 0)), f32_lit(360, 0))

\* ShaftErrValue::to_degrees
ShaftErrValue_to_degrees(self) == f32_div(f32_from_int(self.value), f32_lit(360, 0))

\* MotorShaftAngle::to_degrees
MotorShaftAngle_to_degrees(self) ==
    f32_mul(f32_div(f32_from_int(self.value), f32_lit(65536, 0)), f32_lit(360, 0))

\* degrees and microstep settings the conversions are called with
AngleSample ==
    {f32_lit(0, 0), f32_lit(1, 0), f32_lit(9, -1), f32_lit(9, 0), f32_lit(27, -1),
     f32_lit(45, 0), f32_lit(90, 0), f32_lit(180, 0), f32_lit(360, 0), f32_lit(720, 0),
     f32_lit(3600, 0), f32_lit(58982, 0), f32_lit(58983, 0), f32_lit(120637, 0),
     f32_lit(-90, 0), f32_lit(-1, -2)}
MicrostepSample == {f32_lit(1, 0), f32_lit(4, 0), f32_lit(16, 0), f32_lit(128, 0), f32_lit(256, 0)}

\* raw values a parser can return: i16 errors, i32 angles, i32 carry, u16 value
ErrorSample == {-32768, -360, -183, -1, 0, 1, 45, 90, 183, 360, 16384, 32767}
ShaftAngleSample == ErrorSample \cup {-16384, 65536, 1000001, 16777215}
CarrySample == {-100, -1, 0, 1, 2, 100}
EncoderSample == {0, 1, 16384, 32768, 65535}

Converted(c) ==
    /\ conv' = c
    /\ UNCHANGED <<address, buffer, op, ret, calls, kind, data, res, steps,
                   args, fresh, byte, response, query, scan_idx, iters>>

call_angle_to_steps(angle, microsteps) ==
    Converted([fn |-> "angle_to_steps", angle |-> angle, microsteps |-> microsteps,
               out |-> angle_to_steps(angle, microsteps)])

call_ShaftErrValue_to_degrees(self) ==
    Converted([fn |-> "ShaftErrValue::to_degrees", self |-> self,
               out |-> ShaftErrValue_to_degrees(self)])

call_MotorShaftAngle_to_degrees(self) ==
    Converted([fn |-> "MotorShaftAngle::to_degrees", self |-> self,
               out |-> MotorShaftAngle_to_degrees(self)])

call_EncoderValue_to_degrees(self) ==
    Converted([fn |-> "EncoderValue::to_degrees", self |-> self,
               out |-> EncoderValue_to_degrees(self)])

ConvInit ==
    /\ with_address(DEFAULT_ADDRESS)
    /\ op = "none"
    /\ ret = NoCall
    /\ calls = 0
    /\ kind = "none"
    /\ data = <<>>
    /\ res = NoResult
    /\ steps = 0
    /\ args = NoArgs
    /\ fresh = NoCall
    /\ byte = 0
    /\ response = NoResult
    /\ query = NoResult
    /\ scan_idx = 0
    /\ iters = 0
    /\ conv = NoConversion

ConvNext ==
    \/ \E a \in AngleSample, m \in MicrostepSample : call_angle_to_steps(a, m)
    \/ \E v \in ErrorSample : call_ShaftErrValue_to_degrees([value |-> v])
    \/ \E v \in ShaftAngleSample : call_MotorShaftAngle_to_degrees([value |-> v])
    \/ \E c \in CarrySample, v \in EncoderSample :
           call_EncoderValue_to_degrees([carry |-> c, value |-> v])

ConvSpec == ConvInit /\ [][ConvNext]_vars

----------------------------------------------------------------------------
(* Vocabulary of the properties, written from the frame formats *)

\* a parser has been called on the current bytes
WasParsed == res.tag # "None"

\* the n bytes of d that start at 0-based offset i
Window(d, i, n) == SubSeq(d, i + 1, i + n)

\* a byte in 0xE0..=0xE9
IsAddressByte(b) == b \in 224..233

\* big-endian two's-complement reading of four bytes
Signed32BE(b) ==
    LET low31 == (b[1] % 128) * 16777216 + b[2] * 65536 + b[3] * 256 + b[4]
    IN IF b[1] >= 128 THEN (low31 - 2147483647) - 1 ELSE low31

\* big-endian unsigned reading of two bytes
Unsigned16BE(b) == 256 * b[1] + b[2]

\* big-endian two's-complement reading of two bytes
Signed16BE(b) == IF Unsigned16BE(b) >= 32768 THEN Unsigned16BE(b) - 65536 ELSE Unsigned16BE(b)

\* address in range, frame inside the buffer, checksum matches, and for the
\* angle-error frame the trailing byte is 0x00
WindowAccepted(k, d, i) ==
    /\ i + FrameLen(k) <= Len(d)
    /\ IsAddressByte(d[i + 1])
    /\ d[i + ChecksumSpan(k) + 1] = SumBytes(Window(d, i, ChecksumSpan(k))) % 256
    /\ (k = "shaft_angle_error" => d[i + 5] = 0)

\* an accepted window whose status byte, for the status frames, is 0, 1 or 2
WindowValid(k, d, i) ==
    /\ WindowAccepted(k, d, i)
    /\ (k \in {"en_pin_status", "shaft_status"} => d[i + 2] \in {0, 1, 2})

\* the value a valid frame w of kind k stands for
Decoded(k, w) ==
    CASE k = "encoder" ->
            [carry |-> Signed32BE(Window(w, 1, 4)), value |-> Unsigned16BE(Window(w, 5, 2))]
      [] k = "shaft_angle" -> [value |-> Signed32BE(Window(w, 1, 4))]
      [] k = "shaft_angle_error" -> [value |-> Signed16BE(Window(w, 1, 2))]
      [] k = "en_pin_status" ->
            (CASE w[2] = 1 -> "Enabled" [] w[2] = 2 -> "Disabled" [] OTHER -> "Error")
      [] OTHER ->
            (CASE w[2] = 1 -> "Blocked" [] w[2] = 2 -> "Unblocked" [] OTHER -> "Error")

AcceptedOffsets(k, d) == {i \in 0..(Len(d) - 1) : WindowAccepted(k, d, i)}
ValidOffsets(k, d) == {i \in 0..(Len(d) - 1) : WindowValid(k, d, i)}
Lowest(S) == CHOOSE i \in S : \A j \in S : i <= j

\* the buffer is G followed by F, F a valid frame of kind k
EndsWithValidFrame(k, d) ==
    /\ Len(d) >= FrameLen(k)
    /\ WindowValid(k, d, Len(d) - FrameLen(k))
GarbagePart(k, d) == SubSeq(d, 1, Len(d) - FrameLen(k))
FramePart(k, d) == SubSeq(d, Len(d) - FrameLen(k) + 1, Len(d))

ScanningKinds == {"encoder", "shaft_angle", "shaft_angle_error"}
StatusKinds == {"en_pin_status", "shaft_status"}

RECURSIVE OddPart(_)
\* <<n, k>> with m = n * 2^k and n odd, for m > 0
OddPart(m) ==
    IF m % 2 = 1 THEN <<m, 0>>
    ELSE LET h == OddPart(m \div 2) IN <<h[1], h[2] + 1>>

\* the real number an f32 stands for, as <<n, k>> with value n * 2^k
F32Exact(x) ==
    IF x.m = 0 THEN <<0, 0>>
    ELSE LET h == OddPart(x.m)
         IN <<IF x.s = 1 THEN 0 - h[1] ELSE h[1], h[2] + x.e>>

Abs(i) == IF i < 0 THEN 0 - i ELSE i

\* floor((angle / 360) * 200 * microsteps + 1/2) in exact arithmetic, for a
\* non-negative product: (angle / 360) * 200 = angle * 5 / 9
HalfUpSteps(angle, microsteps) ==
    LET a == F32Exact(angle)
        u == F32Exact(microsteps)
        p == a[1] * u[1]
        k == a[2] + u[2]
    IN IF k >= 0
       THEN (10 * p * Pow2(k) + 9) \div 18
       ELSE (10 * p + 9 * Pow2(0 - k)) \div (18 * Pow2(0 - k))

\* r is within half a unit in its last place of the real number n * 2^k / d
HalfUlpClose(r, n, k, d) ==
    LET m == IF r.s = 1 THEN 0 - r.m ELSE r.m
    IN IF r.m = 0 THEN n = 0
       ELSE IF r.e <= k
       THEN Abs(m * d - n * Pow2(k - r.e)) <= d \div 2
       ELSE Abs(m * d * Pow2(r.e - k) - n) <= (d * Pow2(r.e - k)) \div 2

\* the real numbers two f32 stand for are equal
F32Equal(x, y) == (x.m = 0 /\ y.m = 0) \/ x = y

----------------------------------------------------------------------------
(* Properties *)

\* C1: the last byte of every frame a command-building call returns is the
\* sum modulo 256 of all bytes that precede it in the frame.
C1_ChecksumIsWrappedSum ==
    ret.ok =>
        ret.frame[Len(ret.frame)]
            = SumBytes(SubSeq(ret.frame, 1, Len(ret.frame) - 1)) % 256

\* a returned frame whose leading bytes sum to more than one byte holds
C1_Witness ==
    /\ ret.ok
    /\ SumBytes(SubSeq(ret.frame, 1, Len(ret.frame) - 1)) >= 512
    /\ ret.frame[Len(ret.frame)] < 255

\* C2: every parser returns Ok or Err(InvalidPacket) for every buffer; it
\* never fails a bounds check.
C2_ParsersNeverReadOutside ==
    WasParsed => (res.tag = "Ok" \/ res = InvalidPacket)

\* opcode and payload length of each command-building operation
FrameLayout ==
    [ enable_motor |-> <<243, 1>>, run_with_constant_speed |-> <<246, 1>>,
      stop |-> <<247, 0>>, save_clear_status |-> <<255, 1>>,
      run_motor |-> <<253, 5>>, calibrate_encoder |-> <<128, 1>>,
      set_current_limit |-> <<131, 1>>, set_subdivision |-> <<132, 1>>,
      set_enable_logic |-> <<133, 1>>, set_direction |-> <<134, 1>>,
      set_auto_screen_off |-> <<135, 1>>, set_stall_protection |-> <<136, 1>>,
      set_interpolation |-> <<137, 1>>, set_zero_mode |-> <<144, 1>>,
      set_current_as_zero |-> <<145, 1>>, set_zero_speed |-> <<146, 1>>,
      go_to_zero |-> <<148, 1>>, set_zero_direction |-> <<147, 1>>,
      set_position_kp |-> <<161, 2>>, set_position_ki |-> <<162, 2>>,
      set_position_kd |-> <<163, 2>>, set_acceleration |-> <<164, 2>>,
      set_max_torque |-> <<165, 2>>, read_shaft_status |-> <<62, 0>>,
      read_encoder_value |-> <<48, 0>>, read_pulse_count |-> <<51, 0>>,
      read_motor_shaft_angle |-> <<54, 0>>, read_en_pin_status |-> <<58, 0>>,
      read_motor_shaft_angle_error |-> <<57, 0>>, read_release_status |-> <<61, 0>> ]

\* C3: a successful call returns [address, opcode, payload..., checksum] and
\* the length is fixed by the operation: 3 + 1 for enable_motor, 7 + 1 for
\* run_motor, 2 + 1 for stop and the read_* commands, 4 + 1 for the 16-bit
\* setters.
C3_FrameShapeFixedByOperation ==
    ret.ok =>
        /\ Len(ret.frame) = 2 + FrameLayout[op][2] + 1
        /\ ret.frame[1] = address
        /\ ret.frame[2] = FrameLayout[op][1]
        /\ ret.frame = SubSeq(buffer, 1, Len(ret.frame))
        /\ (op = "enable_motor" => Len(ret.frame) = 3 + 1)
        /\ (op = "run_motor" => Len(ret.frame) = 7 + 1)
        /\ (op \in {"stop", "read_shaft_status", "read_encoder_value",
                    "read_pulse_count", "read_motor_shaft_angle",
                    "read_en_pin_status", "read_motor_shaft_angle_error",
                    "read_release_status"} => Len(ret.frame) = 2 + 1)
        /\ (op \in {"set_position_kp", "set_position_ki", "set_position_kd",
                    "set_acceleration", "set_max_torque"} => Len(ret.frame) = 4 + 1)

\* a short frame returned by a driver whose buffer still holds the tail of
\* an earlier, longer frame
C3_Witness ==
    /\ ret.ok
    /\ op = "stop"
    /\ Len(ret.frame) = 3
    /\ buffer[8] # 0

\* C4: when the buffer holds a window that meets every acceptance condition,
\* parse_encoder_response, parse_motor_shaft_angle_response and
\* parse_motor_shaft_angle_error return the value of the lowest such window.
C4_LowestAcceptedWindowWins ==
    (WasParsed /\ kind \in ScanningKinds /\ AcceptedOffsets(kind, data) # {}) =>
        res = Ok(Decoded(kind,
                 Window(data, Lowest(AcceptedOffsets(kind, data)), FrameLen(kind))))

\* two accepted windows that decode to different values, the first returned
C4_Witness ==
    /\ WasParsed
    /\ kind \in ScanningKinds
    /\ \E i, j \in AcceptedOffsets(kind, data) :
          /\ i < j
          /\ Decoded(kind, Window(data, i, FrameLen(kind)))
                # Decoded(kind, Window(data, j, FrameLen(kind)))
          /\ res = Ok(Decoded(kind, Window(data, i, FrameLen(kind))))

\* C5 as stated: for any bytes G, parsing G followed by a valid frame F
\* gives the result of parsing F alone.
C5_AnyPrefixIgnored ==
    (WasParsed /\ EndsWithValidFrame(kind, data)) =>
        res = Parser(kind, FramePart(kind, data))

\* C5 amended: for bytes G none of which lies in 0xE0..=0xE9, parsing G
\* followed by a valid frame F gives the result of parsing F alone.
C5_PrefixWithoutAddressByteIgnored ==
    (/\ WasParsed
     /\ EndsWithValidFrame(kind, data)
     /\ \A n \in 1..Len(GarbagePart(kind, data)) :
            ~IsAddressByte(GarbagePart(kind, data)[n])) =>
        res = Parser(kind, FramePart(kind, data))

\* a frame found behind a prefix free of address bytes
C5_Witness ==
    /\ WasParsed
    /\ EndsWithValidFrame(kind, data)
    /\ Len(GarbagePart(kind, data)) >= 2
    /\ \A n \in 1..Len(GarbagePart(kind, data)) :
            ~IsAddressByte(GarbagePart(kind, data)[n])
    /\ res = Ok(Decoded(kind, FramePart(kind, data)))

\* C6: a buffer that is exactly one valid frame with one bit of its checksum
\* byte flipped is rejected with Err(InvalidPacket) by its parser.
C6_FlippedChecksumBitRejected ==
    (/\ WasParsed
     /\ Len(data) = FrameLen(kind)
     /\ \E k \in 0..7 :
           WindowValid(kind,
               [data EXCEPT ![ChecksumSpan(kind) + 1] = FlipBit(@, k)], 0)) =>
        res = InvalidPacket

\* C7: in the two status parsers a window with a matching checksum and a
\* status byte outside {0,1,2} is skipped, and the first window that is
\* valid in every respect is decoded.
C7_BadStatusWindowSkipped ==
    (WasParsed /\ kind \in StatusKinds /\ ValidOffsets(kind, data) # {}) =>
        res = Ok(Decoded(kind,
                 Window(data, Lowest(ValidOffsets(kind, data)), FrameLen(kind))))

\* C8: parse_encoder_response on exactly one valid 8-byte frame returns
\* carry = bytes 1..=4 as big-endian signed 32-bit and value = bytes 5..=6 as
\* big-endian unsigned 16-bit; [E0,0,0,0,0,40,00,20] gives carry 0, value
\* 0x4000, which is 90 degrees (value * 360 / 65536).
C8_EncoderFrameDecoded ==
    (/\ WasParsed /\ kind = "encoder"
     /\ Len(data) = 8
     /\ IsAddressByte(data[1])
     /\ data[8] = SumBytes(Window(data, 0, 7)) % 256) =>
        /\ res = Ok([carry |-> Signed32BE(Window(data, 1, 4)),
                     value |-> Unsigned16BE(Window(data, 5, 2))])
        /\ (data = <<224, 0, 0, 0, 0, 64, 0, 32>> =>
               /\ res.val.carry = 0
               /\ res.val.value = 16384
               /\ res.val.value * 360 = 90 * 65536)

\* the frame of the example and its decoded value
C8_Witness ==
    /\ kind = "encoder"
    /\ data = <<224, 0, 0, 0, 0, 64, 0, 32>>
    /\ res = Ok([carry |-> 0, value |-> 16384])

\* C9: parse_motor_shaft_angle_response on exactly one valid 6-byte frame
\* returns bytes 1..=4 as big-endian signed 32-bit; FF FF C0 00 is -16384.
C9_ShaftAngleFrameDecoded ==
    (/\ WasParsed /\ kind = "shaft_angle"
     /\ Len(data) = 6
     /\ IsAddressByte(data[1])
     /\ data[6] = SumBytes(Window(data, 0, 5)) % 256) =>
        /\ res = Ok([value |-> Signed32BE(Window(data, 1, 4))])
        /\ (Window(data, 1, 4) = <<255, 255, 192, 0>> => res.val.value = -16384)

\* a negative angle decoded
C9_Witness ==
    /\ kind = "shaft_angle"
    /\ Len(data) = 6
    /\ Window(data, 1, 4) = <<255, 255, 192, 0>>
    /\ res = Ok([value |-> -16384])

C11_StatusByteMapping ==
    (/\ WasParsed /\ kind \in StatusKinds
     /\ Len(data) = 3
     /\ IsAddressByte(data[1])
     /\ data[3] = (data[1] + data[2]) % 256) =>
        /\ (data[2] = 1 =>
               res = Ok(IF kind = "en_pin_status" THEN "Enabled" ELSE "Blocked"))
        /\ (data[2] = 2 =>
               res = Ok(IF kind = "en_pin_status" THEN "Disabled" ELSE "Unblocked"))
        /\ (data[2] = 0 => res = Ok("Error"))
        /\ (data[2] \in 3..255 => res = InvalidPacket)

\* a well-formed shaft-status frame with status 0xFF, rejected
C11_Witness ==
    /\ kind = "shaft_status"
    /\ Len(data) = 3
    /\ IsAddressByte(data[1])
    /\ data[2] = 255
    /\ data[3] = (data[1] + data[2]) % 256
    /\ res = InvalidPacket

\* C12: run_motor and run_with_constant_speed return Err(InvalidValue)
\* exactly when speed > 0x7F, whatever the direction and pulse count.
C12_SpeedBound ==
    (op \in {"run_motor", "run_with_constant_speed"}) =>
        /\ (ret.ok <=> args.speed <= 127)
        /\ (~ret.ok => ret = [ok |-> FALSE, err |-> "InvalidValue"])

\* the boundary speed 0x7F accepted, counter-clockwise
C12_Witness ==
    /\ op = "run_motor"
    /\ args.speed = 127
    /\ args.direction = "CounterClockwise"
    /\ ret.ok
    /\ ret.frame[3] = 255

\* the operations named as bounded setters, with their maxima
SetterAccepts ==
    /\ (op = "set_max_torque" => (ret.ok <=> args.value <= 1200))
    /\ (op = "set_subdivision" => (ret.ok <=> args.step_index <= 8))
    /\ (op = "set_current_limit" => (ret.ok <=> args.index <= 15))
    /\ (op = "set_zero_speed" => (ret.ok <=> args.speed <= 4))
    /\ ((calls > 0 /\ ~ret.ok) => ret = [ok |-> FALSE, err |-> "InvalidValue"])

BoundedSetters == {"set_max_torque", "set_subdivision", "set_current_limit", "set_zero_speed"}

\* C13 as stated: the four bounded setters accept exactly the values up to
\* their maximum, every rejection is InvalidValue, and no other operation
\* ever returns an error.
C13_OnlyBoundedSettersReject ==
    /\ SetterAccepts
    /\ ((calls > 0 /\ ~ret.ok) => op \in BoundedSetters)

\* C13 amended: ... and no other operation except run_motor and
\* run_with_constant_speed ever returns an error.
C13_OnlyBoundedOperationsReject ==
    /\ SetterAccepts
    /\ ((calls > 0 /\ ~ret.ok) =>
           op \in BoundedSetters \cup {"run_motor", "run_with_constant_speed"})

\* the torque boundary 0x4B0 accepted
C13_Witness ==
    /\ op = "set_max_torque"
    /\ args.value = 1200
    /\ ret.ok
    /\ ret.frame[3] = 4 /\ ret.frame[4] = 176

\* C14: a call that fails with InvalidValue leaves the 10 buffer bytes and
\* the address as they were before the call.
C14_RejectedCallLeavesDriver ==
    [][(calls' = calls + 1 /\ ~ret'.ok) =>
          (buffer' = buffer /\ address' = address)]_vars

\* a rejected call on a driver whose buffer holds an earlier frame
C14_Witness ==
    /\ calls = 2
    /\ ret = [ok |-> FALSE, err |-> "InvalidValue"]
    /\ buffer # ZeroBuffer

\* C15: the angle-error, shaft-angle, EN-pin and shaft-status parsers return
\* Err(InvalidPacket) for every buffer shorter than their frame (5, 6, 3, 3).
C15_ShortBufferRejected ==
    (/\ WasParsed
     /\ kind \in {"shaft_angle_error", "shaft_angle", "en_pin_status", "shaft_status"}
     /\ Len(data) < (CASE kind = "shaft_angle_error" -> 5
                       [] kind = "shaft_angle" -> 6
                       [] OTHER -> 3)) =>
        res = InvalidPacket

\* a shaft-angle answer one byte short, starting with an address byte
C15_Witness ==
    /\ kind = "shaft_angle"
    /\ Len(data) = 5
    /\ IsAddressByte(data[1])
    /\ res = InvalidPacket

\* C16: an Ok result comes from a window that starts at a byte in
\* 0xE0..=0xE9, lies inside the buffer and has a matching checksum; a buffer
\* without any byte in 0xE0..=0xE9 gives Err(InvalidPacket).
C16_OkOnlyFromAddressedWindow ==
    WasParsed =>
        /\ (res.tag = "Ok" =>
               \E i \in 0..(Len(data) - 1) :
                  /\ i + FrameLen(kind) <= Len(data)
                  /\ IsAddressByte(data[i + 1])
                  /\ data[i + ChecksumSpan(kind) + 1]
                        = SumBytes(Window(data, i, ChecksumSpan(kind))) % 256
                  /\ res.val = Decoded(kind, Window(data, i, FrameLen(kind))))
        /\ ((\A n \in 1..Len(data) : ~IsAddressByte(data[n])) => res = InvalidPacket)

\* a frame with first byte 0xDF and a good checksum passed over, the frame
\* behind it decoded
C16_Witness ==
    /\ WasParsed
    /\ Len(data) = 2 * FrameLen(kind)
    /\ data[1] = 223
    /\ data[ChecksumSpan(kind) + 1] = SumBytes(Window(data, 0, ChecksumSpan(kind))) % 256
    /\ res.tag = "Ok"

\* C17: every failure of a response parser is Err(InvalidPacket), whatever
\* its cause; Error::Checksum is never returned; InvalidValue is returned
\* only by command builders.
C17_ErrorKindsUniform ==
    /\ ((WasParsed /\ res.tag # "Ok") =>
           (res.tag = "Err" /\ res.err = "InvalidPacket"))
    /\ ((calls > 0 /\ ~ret.ok) => ret.err = "InvalidValue")

\* C18: the frame a call returns depends only on the address and the
\* arguments of that call: it is the frame the same call returns on a newly
\* constructed driver, whatever calls came before.
C18_FrameIndependentOfHistory ==
    /\ ret = fresh
    /\ (ret.ok => ret.frame = build_command(ZeroBuffer,
                      SubSeq(ret.frame, 1, Len(ret.frame) - 1)).frame)

\* a second call answered while bytes of an earlier, longer frame remain
C18_Witness ==
    /\ calls = 2
    /\ ret.ok
    /\ \E i \in (Len(ret.frame) + 1)..CMD_BUFFER_SIZE : buffer[i] # 0

\* C19: Response::try_from gives Failure for 0x00, Success for 0x01 and
\* Err(InvalidResponse) for 0x02..=0xFF; is_success holds of Success only,
\* is_failure of Failure only, never both.
C19_ResponseFromByte ==
    /\ (response.tag # "None" =>
           response = (IF byte = 0 THEN Ok("Failure")
                       ELSE IF byte = 1 THEN Ok("Success")
                       ELSE [tag |-> "Err", err |-> "InvalidResponse"]))
    /\ (query.tag = "is_success" => (query.val <=> byte = 1))
    /\ (query.tag = "is_failure" => (query.val <=> byte = 0))
    /\ (response.tag = "Ok" => (is_success(response.val) # is_failure(response.val)))

\* a byte that is neither status, refused
C19_Witness ==
    /\ byte = 2
    /\ response = [tag |-> "Err", err |-> "InvalidResponse"]

\* C20: for a driver address in 0xE0..=0xE9 the 8-byte frame built by
\* run_motor, fed to parse_encoder_response, gives Ok with carry = frame
\* bytes 1..=4 and value = frame bytes 5..=6, read big-endian.
C20_RunMotorFrameParsesBack ==
    (/\ WasParsed
     /\ op = "run_motor" /\ ret.ok
     /\ address \in 224..233
     /\ data = ret.frame) =>
        res = Ok([carry |-> Signed32BE(Window(ret.frame, 1, 4)),
                  value |-> Unsigned16BE(Window(ret.frame, 5, 2))])

\* a counter-clockwise move parsed back
C20_Witness ==
    /\ op = "run_motor" /\ ret.ok
    /\ args.direction = "CounterClockwise"
    /\ args.pulses = <<258, 772>>
    /\ address = 233
    /\ data = ret.frame
    /\ res.tag = "Ok"
    /\ res.val.value = 772

\* C21: multi-byte parameters are written most-significant byte first:
\* bytes 3..=6 of a run_motor frame, read big-endian, are the pulses
\* argument, and bytes 2..=3 of a set_position_kp / _ki / _kd /
\* set_acceleration / set_max_torque frame, read big-endian, are the value
\* argument.
C21_ParametersBigEndian ==
    /\ ((op = "run_motor" /\ ret.ok) =>
           /\ ret.frame[4] * 256 + ret.frame[5] = args.pulses[1]
           /\ ret.frame[6] * 256 + ret.frame[7] = args.pulses[2]
           /\ \A i \in 4..7 : ret.frame[i] \in 0..255)
    /\ ((op \in {"set_position_kp", "set_position_ki", "set_position_kd",
                 "set_acceleration", "set_max_torque"} /\ ret.ok) =>
           /\ ret.frame[3] * 256 + ret.frame[4] = args.value
           /\ ret.frame[3] \in 0..255 /\ ret.frame[4] \in 0..255)

\* Kp = 0x0102 written as 0x01, 0x02
C21_Witness ==
    /\ op = "set_position_kp" /\ ret.ok
    /\ args.value = 258
    /\ ret.frame[3] = 1 /\ ret.frame[4] = 2

\* C22: byte 2 of a run_motor / run_with_constant_speed frame is the speed
\* with bit 7 set exactly for CounterClockwise: its low 7 bits are the speed
\* and bit 7 is the direction, so the byte determines the pair.
C22_SpeedByteCarriesDirection ==
    (op \in {"run_motor", "run_with_constant_speed"} /\ ret.ok) =>
        /\ ret.frame[3] = args.speed + (IF args.direction = "Clockwise" THEN 0 ELSE 128)
        /\ ret.frame[3] % 128 = args.speed
        /\ (ret.frame[3] \div 128 = 1 <=> args.direction = "CounterClockwise")
        /\ (ret.frame[3] \div 128 = 0 <=> args.direction = "Clockwise")

\* the highest accepted speed, counter-clockwise, at constant speed
C22_Witness ==
    /\ op = "run_with_constant_speed" /\ ret.ok
    /\ args.speed = 127 /\ args.direction = "CounterClockwise"
    /\ ret.frame[3] = 255

\* the calls that test an argument, and the test they make
ArgumentOutOfRange ==
    CASE op \in {"run_motor", "run_with_constant_speed", "set_zero_speed"} ->
            args.speed > (IF op = "set_zero_speed" THEN 4 ELSE 127)
      [] op = "set_current_limit" -> args.index > 15
      [] op = "set_subdivision" -> args.step_index > 8
      [] op = "set_max_torque" -> args.value > 1200
      [] OTHER -> FALSE

\* C23: byte 0 of every returned frame is the address the driver was
\* constructed with, for addresses inside and outside 0xE0..=0xE9; no call
\* changes the address, and a call is rejected only for its arguments.
C23_FrameStartsWithConstructionAddress ==
    /\ [](/\ (ret.ok => ret.frame[1] = address)
          /\ (calls > 0 => (ret.ok <=> ~ArgumentOutOfRange)))
    /\ [][address' = address]_vars

\* a driver constructed with 0xFF, answering its second call
C23_Witness ==
    /\ address = 255
    /\ calls = 2
    /\ ret.ok
    /\ ret.frame[1] = 255
    /\ buffer[1] = 255

\* C24: two successive successful calls of different operations return
\* frames that differ in byte 1, the opcode.
C24_OpcodeIdentifiesOperation ==
    [][(ret.ok /\ ret'.ok /\ calls' = calls + 1 /\ op' # op) =>
          ret'.frame[2] # ret.frame[2]]_vars

\* stop called after a longer frame of another operation
C24_Witness ==
    /\ calls = 2
    /\ op = "stop" /\ ret.ok
    /\ ret.frame[2] = 247
    /\ buffer[4] # 0

\* C26: the buffer starts with the frame of the most recent successful call
\* and is all zero before the first one; a call writes only the n <= 8 bytes
\* of its frame, never index 8 or 9, and leaves every other byte as it was.
C26_ScratchBuffer ==
    /\ [](/\ (ret.ok => /\ Len(ret.frame) <= 8
                        /\ SubSeq(buffer, 1, Len(ret.frame)) = ret.frame)
          /\ (calls = 0 => buffer = ZeroBuffer)
          /\ buffer[9] = 0 /\ buffer[10] = 0)
    /\ [][calls' = calls + 1 =>
             IF ret'.ok
             THEN \A i \in (Len(ret'.frame) + 1)..CMD_BUFFER_SIZE : buffer'[i] = buffer[i]
             ELSE buffer' = buffer]_vars

\* the checksum of an 8-byte frame still in place after a 4-byte frame
C26_Witness ==
    /\ calls = 2
    /\ op = "enable_motor" /\ ret.ok
    /\ buffer[8] # 0
    /\ SubSeq(buffer, 1, 4) = ret.frame

\* C28: set_auto_screen_off, set_stall_protection and set_interpolation
\* write 0x00 for enable = true and 0x01 for enable = false; enable_motor
\* writes 0x01 for true and 0x00 for false.
C28_FlagPolarity ==
    /\ ((op \in {"set_auto_screen_off", "set_stall_protection", "set_interpolation"}
         /\ ret.ok) =>
           ret.frame[3] = (IF args.enable THEN 0 ELSE 1))
    /\ ((op = "enable_motor" /\ ret.ok) =>
           ret.frame[3] = (IF args.enable THEN 1 ELSE 0))

\* stall protection switched on with payload 0x00
C28_Witness ==
    /\ op = "set_stall_protection" /\ ret.ok
    /\ args.enable
    /\ ret.frame[3] = 0

\* the offsets p at which the buffer is P, then a valid frame F, then S, with
\* no byte of P in 0xE0..=0xE9
SyncOffsets(k, d) ==
    {p \in 0..(Len(d) - 1) :
        /\ WindowValid(k, d, p)
        /\ \A n \in 1..p : ~IsAddressByte(d[n])}

\* C25: for each parser, a valid frame F behind a prefix P without any byte
\* in 0xE0..=0xE9 and in front of any suffix S parses to the same value as F
\* alone.
C25_FrameFoundBetweenPrefixAndSuffix ==
    WasParsed =>
        \A p \in SyncOffsets(kind, data) :
            /\ res = Parser(kind, Window(data, p, FrameLen(kind)))
            /\ res = Ok(Decoded(kind, Window(data, p, FrameLen(kind))))

\* a stray byte, a frame, and a suffix byte that is itself an address byte
C25_Witness ==
    /\ WasParsed
    /\ 1 \in SyncOffsets(kind, data)
    /\ Len(data) = 1 + FrameLen(kind) + 1
    /\ IsAddressByte(data[Len(data)])
    /\ res.tag = "Ok"

\* C27: every parser call ends: each loop iteration that does not return
\* moves the scan offset up by one, the two `continue` paths of
\* parse_motor_shaft_angle_error included, so at most len(buffer) iterations
\* run and the call ends.
C27_ScanTerminates ==
    /\ [](iters <= Len(data) /\ scan_idx <= Len(data))
    /\ [][/\ scan_idx' >= scan_idx
          /\ ((iters' = iters + 1 /\ res' = NoResult) => scan_idx' = scan_idx + 1)]_vars
    /\ <>(res # NoResult)

\* parse_motor_shaft_angle_error went on after a window with a non-zero trailing
\* byte and after a window with a wrong checksum, and has returned
C27_Witness ==
    /\ kind = "shaft_angle_error"
    /\ Len(data) >= 7
    /\ IsAddressByte(data[1]) /\ data[5] # 0
    /\ IsAddressByte(data[2]) /\ data[6] = 0
    /\ data[5] # (data[2] + data[3] + data[4]) % 256
    /\ scan_idx >= 2
    /\ res # NoResult

\* the step-wise scan returns what the parser function returns
ScanAgreesWithParser == (res # NoResult) => res = Parser(kind, data)

\* C29: angle_to_steps(angle, microsteps) is (angle / 360) * 200 *
\* microsteps rounded half-up to a u32: 200 for (360, 1), 800 for (360, 4),
\* 400 for (180, 4), and an exact half-step product is rounded up.
C29_AngleToStepsRoundsHalfUp ==
    (conv.fn = "angle_to_steps" /\ conv.angle.s = 0) =>
        LET n == HalfUpSteps(conv.angle, conv.microsteps)
        IN conv.out = <<n \div 65536, n % 65536>>

\* the degree value of each conversion, against the real number it stands for
DegreesAsStated ==
    /\ (conv.fn = "ShaftErrValue::to_degrees" =>
           HalfUlpClose(conv.out, conv.self.value, -3, 45))
    /\ (conv.fn = "MotorShaftAngle::to_degrees" =>
           HalfUlpClose(conv.out, 45 * conv.self.value, -13, 1))
    /\ (conv.fn = "EncoderValue::to_degrees" =>
           HalfUlpClose(conv.out, 45 * (conv.self.carry * 65536 + conv.self.value), -13, 1))

====
